---- MODULE Spec2Model ----
(***************************************************************************)
(* Model of sj2psi.get_psis (src/sj2psi/__init__.py).                      *)
(*                                                                         *)
(* A DataFrame is a record                                                 *)
(*   [index_names, index, columns, rows]                                   *)
(* where index is the sequence of row labels (each label a tuple: <<i>>    *)
(* for the default RangeIndex, <<chrom, coord>> after set_index), columns  *)
(* is the ordered sequence of column names and rows[i] maps every column   *)
(* name to the cell of row i.  A Series is a record [name, index, values]. *)
(*                                                                         *)
(* Floating-point cells are exact fractions <<num, den>> in lowest terms;  *)
(* NaN (pandas' missing value) is <<0, 0>> and inf is <<1, 0>>.            *)
(* Python objects are mutable: get_psis changes the object it is given up  *)
(* to the first `sj = sj.join(s)`, which rebinds the local name to a new   *)
(* object.  The model therefore returns both the final state of the        *)
(* argument object and the returned object.                                *)
(***************************************************************************)
EXTENDS Integers, Sequences, FiniteSets, TLC

(* ---------------- bounds of the explored inputs ---------------- *)
MaxRows == 2
MaxReads == 1
MinThreshold == 0 - 1

(* default arguments of get_psis *)
DefaultMinUnique == 5
DefaultMinMultimap == 10

(* ---------------- floating point cells ---------------- *)
NaN == <<0, 0>>
Inf == <<1, 0>>

RECURSIVE gcd(_, _)
gcd(a, b) == IF b = 0 THEN a ELSE gcd(b, a % b)

Frac(n, d) ==
    IF d = 0 THEN (IF n = 0 THEN NaN ELSE Inf)
    ELSE LET g == gcd(n, d) IN <<n \div g, d \div g>>

float(n) == <<n, 1>>
isnan(x) == x = NaN

\* element of Series.add without fill_value: a missing operand gives NaN
fadd(a, b) ==
    IF isnan(a) \/ isnan(b) THEN NaN
    ELSE Frac(a[1] * b[2] + b[1] * a[2], a[2] * b[2])

\* the quotient taken the wrong way round
truediv_inverted(a, b) ==
    IF isnan(a) \/ isnan(b) THEN NaN
    ELSE Frac(a[2] * b[1], a[1] * b[2])

\* element of Series `/`: NaN propagates, 0/0 is NaN, x/0 is inf, no error
truediv(a, b) ==
    IF isnan(a) \/ isnan(b) THEN NaN
    ELSE Frac(a[1] * b[2], a[2] * b[1])

(* ---------------- DataFrame / Series primitives ---------------- *)
RECURSIVE RangeIndex(_)
RangeIndex(n) == IF n = 0 THEN <<>> ELSE Append(RangeIndex(n - 1), <<n - 1>>)

Contains(seq, x) == \E i \in DOMAIN seq : seq[i] = x

DataFrame(columns, rows) ==
    [index_names |-> <<>>, index |-> RangeIndex(Len(rows)),
     columns |-> columns, rows |-> rows]

None == [index_names |-> <<>>, index |-> <<>>, columns |-> <<>>, rows |-> <<>>]

\* sj.<column>: the column as a Series carrying the frame's index
getattr(sj, c) ==
    [name |-> c, index |-> sj.index,
     values |-> [i \in DOMAIN sj.rows |-> sj.rows[i][c]]]

\* series[series > bound]: an exclusive threshold
RECURSIVE ge_select_strict(_, _, _)
ge_select_strict(s, bound, n) ==
    IF n = 0 THEN [name |-> s.name, index |-> <<>>, values |-> <<>>]
    ELSE LET rest == ge_select_strict(s, bound, n - 1)
         IN IF s.values[n] > bound
            THEN [name |-> s.name,
                  index |-> Append(rest.index, s.index[n]),
                  values |-> Append(rest.values, float(s.values[n]))]
            ELSE rest

\* series[series >= bound]: the entries whose value passes, labels kept
RECURSIVE ge_select(_, _, _)
ge_select(s, bound, n) ==
    IF n = 0 THEN [name |-> s.name, index |-> <<>>, values |-> <<>>]
    ELSE LET rest == ge_select(s, bound, n - 1)
         IN IF s.values[n] >= bound
            THEN [name |-> s.name,
                  index |-> Append(rest.index, s.index[n]),
                  values |-> Append(rest.values, float(s.values[n]))]
            ELSE rest

getitem_ge(s, bound) == ge_select(s, bound, Len(s.values))

\* value the Series holds for a label, NaN when the label is absent
reindex(s, label) ==
    IF \E k \in DOMAIN s.index : s.index[k] = label
    THEN s.values[CHOOSE k \in DOMAIN s.index : s.index[k] = label]
    ELSE NaN

\* sj[c] = s: s is aligned on sj's index, labels missing from s give NaN;
\* an existing column is overwritten in place, a new one is appended.
\* Every frame assigned to here carries unique labels (a RangeIndex) or the
\* very index of s, the two cases in which pandas aligns without raising.
setitem(sj, c, s) ==
    [index_names |-> sj.index_names,
     index |-> sj.index,
     columns |-> IF Contains(sj.columns, c) THEN sj.columns
                 ELSE Append(sj.columns, c),
     rows |-> [i \in DOMAIN sj.rows |->
                 [col \in (DOMAIN sj.rows[i]) \cup {c} |->
                    IF col = c
                    THEN (IF s.index = sj.index THEN s.values[i]
                          ELSE reindex(s, sj.index[i]))
                    ELSE sj.rows[i][col]]]]

\* a.add(b) for two columns of the same frame
add(a, b) ==
    [name |-> a.name, index |-> a.index,
     values |-> [i \in DOMAIN a.values |-> fadd(a.values[i], b.values[i])]]

\* a / b for two columns of the same frame
div(a, b) ==
    [name |-> a.name, index |-> a.index,
     values |-> [i \in DOMAIN a.values |-> truediv(a.values[i], b.values[i])]]

(* ---------------- groupby / set_index / join ---------------- *)
COLUMN_NAMES ==
    <<"chrom", "intron_start", "intron_stop", "strand",
      "intron_motif", "annotated",
      "unique_junction_reads", "multimap_junction_reads",
      "max_overhang">>

Chroms == <<"chr1", "chr2">>
ChromRank(c) == CHOOSE i \in DOMAIN Chroms : Chroms[i] = c

\* the donor grouping keyed on the acceptor coordinate
psi5_groupby_acceptor == <<"chrom", "intron_stop">>

psi5_groupby == <<"chrom", "intron_start">>
psi3_groupby == <<"chrom", "intron_stop">>

\* the dict of line 158, iterated in insertion order
groupbys == <<[name |-> "psi5", groupby |-> psi5_groupby],
              [name |-> "psi3", groupby |-> psi3_groupby]>>

denominator(name) == IF name = "psi5" THEN "psi5_denominator"
                     ELSE "psi3_denominator"

\* the group key of a row: the values of the groupby columns
GroupKey(row, groupby) == <<row[groupby[1]], row[groupby[2]]>>

KeyLess(k1, k2) ==
    \/ ChromRank(k1[1]) < ChromRank(k2[1])
    \/ k1[1] = k2[1] /\ k1[2] < k2[2]

RECURSIVE SortKeys(_)
SortKeys(S) ==
    IF S = {} THEN <<>>
    ELSE LET m == CHOOSE k \in S : \A o \in S \ {k} : KeyLess(k, o)
         IN <<m>> \o SortKeys(S \ {m})

\* sum(skipna=False): one NaN cell makes the group's sum NaN
RECURSIVE nansum_propagating(_, _, _, _)
nansum_propagating(sj, groupby, key, n) ==
    IF n = 0 THEN float(0)
    ELSE LET rest == nansum_propagating(sj, groupby, key, n - 1)
             v == sj.rows[n]["total_filtered_reads"]
         IN IF GroupKey(sj.rows[n], groupby) = key
            THEN fadd(rest, v) ELSE rest

\* sum() of one group: NaN cells are skipped, an all-NaN group sums to 0.0
RECURSIVE nansum(_, _, _, _)
nansum(sj, groupby, key, n) ==
    IF n = 0 THEN float(0)
    ELSE LET rest == nansum(sj, groupby, key, n - 1)
             v == sj.rows[n]["total_filtered_reads"]
         IN IF GroupKey(sj.rows[n], groupby) = key /\ ~isnan(v)
            THEN fadd(rest, v) ELSE rest

\* sj.groupby(groupby).total_filtered_reads.sum(), renamed to `name`:
\* one entry per distinct key, keys in sorted order
groupby_sum(sj, groupby, name) ==
    LET keys == SortKeys({GroupKey(sj.rows[i], groupby) : i \in DOMAIN sj.rows})
    IN [name |-> name, index |-> keys,
        values |-> [k \in DOMAIN keys |->
                      nansum(sj, groupby, keys[k], Len(sj.rows))]]

\* sj.set_index(groupby, inplace=True, drop=False)
set_index(sj, groupby) ==
    [index_names |-> groupby,
     index |-> [i \in DOMAIN sj.rows |-> GroupKey(sj.rows[i], groupby)],
     columns |-> sj.columns,
     rows |-> sj.rows]

\* sj.reset_index(inplace=True, drop=True)
reset_index(sj) ==
    [index_names |-> <<>>, index |-> RangeIndex(Len(sj.rows)),
     columns |-> sj.columns, rows |-> sj.rows]

WithCell(row, c, v) ==
    [col \in (DOMAIN row) \cup {c} |-> IF col = c THEN v ELSE row[col]]

\* rows produced for left row n by the first k entries of s
RECURSIVE join_matches(_, _, _, _)
join_matches(sj, s, n, k) ==
    IF k = 0 THEN <<>>
    ELSE LET rest == join_matches(sj, s, n, k - 1)
         IN IF s.index[k] = sj.index[n]
            THEN Append(rest, WithCell(sj.rows[n], s.name, s.values[k]))
            ELSE rest

\* left join of the first n rows of sj with s on the index
RECURSIVE join_left(_, _, _)
join_left(sj, s, n) ==
    IF n = 0 THEN [index |-> <<>>, rows |-> <<>>]
    ELSE LET rest == join_left(sj, s, n - 1)
             m == join_matches(sj, s, n, Len(s.index))
             new == IF m = <<>> THEN <<WithCell(sj.rows[n], s.name, NaN)>>
                    ELSE m
         IN [index |-> rest.index \o [j \in DOMAIN new |-> sj.index[n]],
             rows |-> rest.rows \o new]

\* sj.join(s) raises ValueError when s.name is already a column of sj
join_overlaps(sj, s) == Contains(sj.columns, s.name)

\* the rows of sj labelled s.index[k], among the first n rows
RECURSIVE rows_labelled(_, _, _, _)
rows_labelled(sj, s, k, n) ==
    IF n = 0 THEN <<>>
    ELSE LET rest == rows_labelled(sj, s, k, n - 1)
         IN IF sj.index[n] = s.index[k]
            THEN Append(rest, WithCell(sj.rows[n], s.name, s.values[k]))
            ELSE rest

RECURSIVE join_by_key(_, _, _)
join_by_key(sj, s, k) ==
    IF k = 0 THEN [index |-> <<>>, rows |-> <<>>]
    ELSE LET rest == join_by_key(sj, s, k - 1)
             new == rows_labelled(sj, s, k, Len(sj.rows))
         IN [index |-> rest.index \o [j \in DOMAIN new |-> s.index[k]],
             rows |-> rest.rows \o new]

\* a join whose result is ordered by the join key (sort=True)
join_sorted(sj, s) ==
    LET j == join_by_key(sj, s, Len(s.index))
    IN [index_names |-> sj.index_names, index |-> j.index,
        columns |-> Append(sj.columns, s.name), rows |-> j.rows]

\* sj.join(s): a new frame, the calling frame's rows in their order, each
\* with the value s holds for the row's index label
join(sj, s) ==
    LET j == join_left(sj, s, Len(sj.rows))
    IN [index_names |-> sj.index_names, index |-> j.index,
        columns |-> Append(sj.columns, s.name), rows |-> j.rows]

(* ---------------- get_psis ---------------- *)
\* lines 145-151: the three columns assigned on the object passed in
filtered(sj, min_unique, min_multimap) ==
    LET a == setitem(sj, "multimap_junction_reads_filtered",
                 getitem_ge(getattr(sj, "multimap_junction_reads"), min_multimap))
        b == setitem(a, "unique_junction_reads_filtered",
                 getitem_ge(getattr(a, "unique_junction_reads"), min_unique))
    IN setitem(b, "total_filtered_reads",
               add(getattr(b, "multimap_junction_reads_filtered"),
                   getattr(b, "unique_junction_reads_filtered")))

\* lines 164-166 on the indexed frame: the new object bound to sj
joined(indexed, s, name) ==
    LET j == join(indexed, s)
    IN reset_index(setitem(j, name,
           div(getattr(j, "total_filtered_reads"), getattr(j, s.name))))

\* the loop of lines 159-166 over gs, starting at the frame cur.
\* arg is the object the caller passed; it is the loop's frame only while
\* `first` holds, i.e. until the first join rebinds sj
RECURSIVE loop(_, _, _, _)
loop(gs, cur, arg, first) ==
    IF gs = <<>> THEN [status |-> "ok", arg |-> arg, ret |-> cur]
    ELSE LET g == Head(gs)
             s == groupby_sum(cur, g.groupby, denominator(g.name))
             indexed == set_index(cur, g.groupby)
             arg2 == IF first THEN indexed ELSE arg
         IN IF join_overlaps(indexed, s)
            THEN [status |-> "ValueError", arg |-> arg2, ret |-> None]
            ELSE loop(Tail(gs), joined(indexed, s, g.name), arg2, FALSE)

\* get_psis with a check of its thresholds in front
get_psis_validating(sj, min_unique, min_multimap) ==
    IF min_unique < 0 \/ min_multimap < 0
    THEN [status |-> "InvalidParameterError", arg |-> sj, ret |-> None]
    ELSE loop(groupbys, filtered(sj, min_unique, min_multimap),
              filtered(sj, min_unique, min_multimap), TRUE)

\* get_psis(sj, min_unique, min_multimap): status is "ok" or the exception
\* raised, arg the argument object after the call, ret the returned frame
get_psis(sj, min_unique, min_multimap) ==
    loop(groupbys, filtered(sj, min_unique, min_multimap),
         filtered(sj, min_unique, min_multimap), TRUE)

(* ---------------- the explored inputs ---------------- *)
Reads == 0 .. MaxReads
\* <<unique, multimap>> read counts of a junction, at most MaxReads reads
ReadPairs == {p \in Reads \X Reads : p[1] + p[2] <= MaxReads}
\* thresholds from below every count up to the largest count
Thresholds == MinThreshold .. MaxReads

\* the junctions of the explored tables, <<chrom, start, stop, strand>>:
\* two acceptors of one donor, two donors of one acceptor, the same
\* coordinates on the other strand, the same coordinates on another chrom
Sites ==
    {<<1, 100, 180, "+">>, <<1, 100, 200, "+">>, <<1, 130, 200, "+">>,
     <<1, 100, 200, "-">>, <<2, 100, 200, "+">>}

\* one line of SJ.out.tab as read_sj_out_tab delivers it
Junctions ==
    {[chrom |-> Chroms[j[1]], intron_start |-> j[2], intron_stop |-> j[3],
      strand |-> j[4], intron_motif |-> "GT/AG", annotated |-> TRUE,
      unique_junction_reads |-> p[1], multimap_junction_reads |-> p[2],
      max_overhang |-> 30] :
        j \in Sites, p \in ReadPairs}

SiteOf(row) ==
    <<row.chrom, row.intron_start, row.intron_stop, row.strand>>

\* SJ.out.tab holds one line per junction, in any order
Tables ==
    UNION {{t \in [1 .. n -> Junctions] :
               \A i, j \in 1 .. n : i # j => SiteOf(t[i]) # SiteOf(t[j])} :
           n \in 1 .. MaxRows}

\* the frame built in the doctest of get_psis
DoctestColumns ==
    <<"chrom", "intron_start", "intron_stop",
      "unique_junction_reads", "multimap_junction_reads">>

DoctestData ==
    <<[chrom |-> "chr1", intron_start |-> 100, intron_stop |-> 100,
       unique_junction_reads |-> 90, multimap_junction_reads |-> 0],
      [chrom |-> "chr1", intron_start |-> 100, intron_stop |-> 200,
       unique_junction_reads |-> 10, multimap_junction_reads |-> 0],
      [chrom |-> "chr1", intron_start |-> 130, intron_stop |-> 200,
       unique_junction_reads |-> 40, multimap_junction_reads |-> 0]>>

Frames ==
    {DataFrame(COLUMN_NAMES, t) : t \in Tables}
        \cup {DataFrame(DoctestColumns, DoctestData)}

Arguments ==
    (Thresholds \X Thresholds) \cup {<<DefaultMinUnique, DefaultMinMultimap>>}

(* ---------------- state ---------------- *)
VARIABLES
    data,          \* the frame as the caller built it (never changed)
    sj,            \* the caller's frame object, passed to get_psis
    min_unique,
    min_multimap,
    status,        \* outcome of get_psis(sj): "ok" or the exception
    returned,      \* the frame get_psis(sj) returned (never changed)
    sj_with_psi,   \* the returned frame object, passed to get_psis again
    status2,       \* outcome of get_psis(sj_with_psi)
    returned2,     \* the frame the second call returned
    pc

vars == <<data, sj, min_unique, min_multimap, status, returned,
          sj_with_psi, status2, returned2, pc>>

Init ==
    /\ data \in Frames
    /\ sj = data
    /\ \E a \in Arguments : min_unique = a[1] /\ min_multimap = a[2]
    /\ status = "none"
    /\ returned = None
    /\ sj_with_psi = None
    /\ status2 = "none"
    /\ returned2 = None
    /\ pc = "start"

\* sj_with_psi = get_psis(sj, min_unique, min_multimap)
Call ==
    /\ pc = "start"
    /\ \E r \in {get_psis(sj, min_unique, min_multimap)} :
          /\ sj' = r.arg
          /\ status' = r.status
          /\ returned' = r.ret
          /\ sj_with_psi' = r.ret
    /\ pc' = "called"
    /\ UNCHANGED <<data, min_unique, min_multimap, status2, returned2>>

\* get_psis(sj_with_psi, min_unique, min_multimap)
CallAgain ==
    /\ pc = "called"
    /\ status = "ok"
    /\ \E r \in {get_psis(sj_with_psi, min_unique, min_multimap)} :
          /\ sj_with_psi' = r.arg
          /\ status2' = r.status
          /\ returned2' = r.ret
    /\ pc' = "recalled"
    /\ UNCHANGED <<data, sj, min_unique, min_multimap, status, returned>>

Next == Call \/ CallAgain

Spec == Init /\ [][Next]_vars

(* ---------------- properties ---------------- *)
Cell(f, i, c) == f.rows[i][c]
ColumnValues(f, c) == [i \in DOMAIN f.rows |-> f.rows[i][c]]
Returned == pc # "start" /\ status = "ok"
RawColumns(f) == {f.columns[k] : k \in DOMAIN f.columns}
Derived ==
    {"unique_junction_reads_filtered", "multimap_junction_reads_filtered",
     "total_filtered_reads", "psi5_denominator", "psi3_denominator",
     "psi5", "psi3"}
Defined(x) == ~isnan(x) /\ x[2] > 0
Positive(x) == Defined(x) /\ x[1] > 0
OrZero(x) == IF isnan(x) THEN float(0) ELSE x

\* rows of f in the same donor (5') / acceptor (3') group as row i
DonorGroup(f, i) ==
    {j \in DOMAIN f.rows :
        /\ Cell(f, j, "chrom") = Cell(f, i, "chrom")
        /\ Cell(f, j, "intron_start") = Cell(f, i, "intron_start")}
AcceptorGroup(f, i) ==
    {j \in DOMAIN f.rows :
        /\ Cell(f, j, "chrom") = Cell(f, i, "chrom")
        /\ Cell(f, j, "intron_stop") = Cell(f, i, "intron_stop")}

\* sum of column c over the rows in S, missing cells left out
RECURSIVE SumDefined(_, _, _)
SumDefined(f, c, S) ==
    IF S = {} THEN float(0)
    ELSE LET j == CHOOSE k \in S : TRUE
         IN fadd(OrZero(Cell(f, j, c)), SumDefined(f, c, S \ {j}))

DoctestCall ==
    /\ pc # "start"
    /\ data = DataFrame(DoctestColumns, DoctestData)
    /\ min_unique = DefaultMinUnique
    /\ min_multimap = DefaultMinMultimap

\* C1: get_psis on the doctest's three-row table with the default thresholds
\* (5, 10) returns psi5 = [0.9, 0.1, 1.0] and psi3 = [1.0, 0.2, 0.8].
C1_DoctestPsis ==
    DoctestCall =>
        /\ status = "ok"
        /\ ColumnValues(returned, "psi5") = <<Frac(9, 10), Frac(1, 10), float(1)>>
        /\ ColumnValues(returned, "psi3") = <<float(1), Frac(2, 10), Frac(8, 10)>>

\* C2: total_filtered_reads is the sum of the two filtered counts with a
\* missing one counted as 0 when the other is present; it is missing only
\* when both filtered counts are missing.
C2_TotalTreatsMissingAsZero ==
    Returned =>
        \A i \in DOMAIN returned.rows :
            LET u == Cell(returned, i, "unique_junction_reads_filtered")
                m == Cell(returned, i, "multimap_junction_reads_filtered")
            IN Cell(returned, i, "total_filtered_reads") =
                  IF isnan(u) /\ isnan(m) THEN NaN
                  ELSE fadd(OrZero(u), OrZero(m))

\* C3: get_psis applied to the table a previous get_psis returned (same
\* thresholds) completes without error and yields the same derived columns.
C3_SecondCallSameColumns ==
    pc = "recalled" =>
        /\ status2 = "ok"
        /\ Len(returned2.rows) = Len(returned.rows)
        /\ \A i \in DOMAIN returned.rows : \A c \in Derived :
              Cell(returned2, i, c) = Cell(returned, i, c)

\* C4: after get_psis the table object the caller passed has the same
\* columns, the same row index and the same cells as before the call.
C4_ArgumentUnchanged ==
    pc # "start" =>
        /\ sj.columns = data.columns
        /\ sj.index_names = data.index_names
        /\ sj.index = data.index
        /\ sj.rows = data.rows

NegativeThreshold == min_unique < 0 \/ min_multimap < 0

\* C5: with a negative min_unique or min_multimap, get_psis fails with
\* InvalidParameterError and returns no augmented table.
C5_NegativeThresholdFails ==
    (pc # "start" /\ NegativeThreshold) =>
        status = "InvalidParameterError" /\ returned = None

\* C5 (amended): with a negative min_unique or min_multimap, get_psis raises
\* nothing and returns the augmented table; under a negative threshold every
\* count passes the filter, so the filtered count equals the raw count.
C5_NegativeThresholdAccepted ==
    (pc # "start" /\ NegativeThreshold) =>
        /\ status = "ok"
        /\ Len(returned.rows) = Len(data.rows)
        /\ \A i \in DOMAIN returned.rows :
              /\ min_unique < 0 =>
                    Cell(returned, i, "unique_junction_reads_filtered")
                        = float(Cell(data, i, "unique_junction_reads"))
              /\ min_multimap < 0 =>
                    Cell(returned, i, "multimap_junction_reads_filtered")
                        = float(Cell(data, i, "multimap_junction_reads"))

C5_Witness ==
    /\ pc = "called"
    /\ min_unique < 0
    /\ min_multimap >= 0
    /\ status = "ok"
    /\ \E i \in DOMAIN returned.rows :
          /\ Cell(data, i, "unique_junction_reads") = 0
          /\ Cell(returned, i, "unique_junction_reads_filtered") = float(0)

InUnitInterval(x) == isnan(x) \/ (x[2] > 0 /\ 0 <= x[1] /\ x[1] <= x[2])

\* C8: with non-negative counts and thresholds get_psis raises nothing and
\* every psi5 and psi3 is undefined or lies in [0, 1]; a zero or missing
\* denominator or a missing numerator gives an undefined score.
C8_PsiInUnitInterval ==
    (pc # "start" /\ min_unique >= 0 /\ min_multimap >= 0) =>
        /\ status = "ok"
        /\ \A i \in DOMAIN returned.rows :
              /\ InUnitInterval(Cell(returned, i, "psi5"))
              /\ InUnitInterval(Cell(returned, i, "psi3"))
              /\ (\/ isnan(Cell(returned, i, "total_filtered_reads"))
                  \/ Cell(returned, i, "psi5_denominator") = float(0))
                    => isnan(Cell(returned, i, "psi5"))
              /\ (\/ isnan(Cell(returned, i, "total_filtered_reads"))
                  \/ Cell(returned, i, "psi3_denominator") = float(0))
                    => isnan(Cell(returned, i, "psi3"))

\* a row whose total is 0.0 in groups whose sums are 0.0: both scores 0/0
C8_Witness ==
    /\ pc = "called"
    /\ min_unique >= 0
    /\ min_multimap >= 0
    /\ status = "ok"
    /\ \E i \in DOMAIN returned.rows :
          /\ Cell(returned, i, "total_filtered_reads") = float(0)
          /\ Cell(returned, i, "psi5_denominator") = float(0)
          /\ Cell(returned, i, "psi3_denominator") = float(0)
          /\ isnan(Cell(returned, i, "psi5"))
          /\ isnan(Cell(returned, i, "psi3"))

\* C9: psi5_denominator of a row is the sum of the defined
\* total_filtered_reads of the rows with its (chrom, intron_start) and
\* psi3_denominator the same over (chrom, intron_stop); a missing total adds
\* nothing and does not make the sum missing; strand is not part of a key.
C9_DenominatorIsGroupSum ==
    Returned =>
        \A i \in DOMAIN returned.rows :
            /\ Cell(returned, i, "psi5_denominator")
                  = SumDefined(returned, "total_filtered_reads",
                               DonorGroup(returned, i))
            /\ Cell(returned, i, "psi3_denominator")
                  = SumDefined(returned, "total_filtered_reads",
                               AcceptorGroup(returned, i))

\* the same coordinates on the two strands, one total missing, one defined
C9_Witness ==
    /\ pc = "called"
    /\ status = "ok"
    /\ Contains(returned.columns, "strand")
    /\ \E i, j \in DOMAIN returned.rows :
          /\ j \in DonorGroup(returned, i)
          /\ j \in AcceptorGroup(returned, i)
          /\ Cell(returned, i, "strand") # Cell(returned, j, "strand")
          /\ isnan(Cell(returned, i, "total_filtered_reads"))
          /\ Positive(Cell(returned, j, "total_filtered_reads"))
          /\ Cell(returned, i, "psi5_denominator")
                = Cell(returned, j, "total_filtered_reads")
          /\ Cell(returned, i, "psi3_denominator")
                = Cell(returned, j, "total_filtered_reads")

AllPositive(f, S) ==
    \A j \in S : Positive(Cell(f, j, "total_filtered_reads"))

====
